---- MODULE Spec2Model ----
(***************************************************************************)
(* Model of the shared message bus: the envelope codec of                  *)
(* shared/a2a_envelope.py and the RedisBus client of shared/redis_bus.py,  *)
(* run against a broker with Redis Streams consumer-group semantics        *)
(* (XADD, XGROUP CREATE, XREADGROUP, XACK).                                *)
(***************************************************************************)
EXTENDS Integers, Sequences, FiniteSets, TLC

(* ------------------------------ bounds --------------------------------- *)
\* Entries the broker holds over all streams.
MaxEntries == 3
\* Records of a foreign producer among them.
MaxPoison == 1
\* Records the codec pipeline decodes in one behaviour.
MaxDecodes == 3
\* Faults in one behaviour: transport errors of the broker connection and
\* stops of a consumer process.
MaxFaults == 1

(* --------------------------- program constants ------------------------- *)
\* count=1 of the xreadgroup call: entries returned per stream.
ReadCount == 1

Streams == {"s1", "s2"}
Consumers == {"c1", "c2"}
\* The consumer group every subscription of the model joins.
Group == "g"
\* The stream lists a subscription may be given.
StreamLists == {<<"s1">>, <<"s1", "s2">>}
Payloads == {[data |-> 123]}
\* The inputs of Construct in the codec pipeline.
CodecPayloads == {[data |-> 123], [data |-> 1, n |-> 2]}
SourceNames == {"agent"}
SourceVersions == {"1", "2"}

(* ------------------------------ codec ---------------------------------- *)
\* The value parse_message_from_stream returns on every failure.
None == [tag |-> "None"]

\* JSON values: tagged trees.
JStr(x) == [t |-> "string", v |-> x]
JNum(x) == [t |-> "number", v |-> x]
JObj(f) == [t |-> "object", m |-> f]

\* JSON texts: a well-formed document or unparseable text.
Doc(j) == [wf |-> TRUE, val |-> j]
Garbage == [wf |-> FALSE]

\* Byte strings: valid UTF-8 holding a text, or bytes that are no UTF-8.
Utf8(text) == [utf8 |-> TRUE, text |-> text]
NotUtf8 == [utf8 |-> FALSE]

SourceAgent(name, version) == [name |-> name, version |-> version]

\* Envelope(...): message_id and timestamp_utc come from the default
\* factories; gen is the pair of values the factories produce at this call.
Envelope(source_agent, target_stream, gen) ==
    [message_id    |-> gen.id,
     timestamp_utc |-> gen.ts,
     source_agent  |-> source_agent,
     target_stream |-> target_stream]

StandardMessage(envelope, payload) == [envelope |-> envelope, payload |-> payload]

wrap_envelope(payload, source_name, source_version, target_stream, gen) ==
    LET source_agent_obj == SourceAgent(source_name, source_version)
        envelope_obj == Envelope(source_agent_obj, target_stream, gen)
    IN  StandardMessage(envelope_obj, payload)

\* model_dump_json leaving message_id and timestamp_utc out of the text.
model_dump_json_no_ids(message) ==
    LET e == message.envelope
    IN  Doc(JObj([envelope |-> JObj([source_agent  |-> JObj([name    |-> JStr(e.source_agent.name),
                                                             version |-> JStr(e.source_agent.version)]),
                                     target_stream |-> JStr(e.target_stream)]),
                  payload  |-> JObj([k \in DOMAIN message.payload |->
                                        JNum(message.payload[k])])]))

\* StandardMessage.model_dump_json: the message as a JSON text.
model_dump_json(message) ==
    LET e == message.envelope
    IN  Doc(JObj([envelope |-> JObj([message_id    |-> JStr(e.message_id),
                                     timestamp_utc |-> JStr(e.timestamp_utc),
                                     source_agent  |-> JObj([name    |-> JStr(e.source_agent.name),
                                                             version |-> JStr(e.source_agent.version)]),
                                     target_stream |-> JStr(e.target_stream)]),
                  payload  |-> JObj([k \in DOMAIN message.payload |->
                                        JNum(message.payload[k])])]))

IsObj(j) == j.t = "object"
IsStr(j) == j.t = "string"
Has(j, k) == k \in DOMAIN j.m

\* Schema check of SourceAgent: name and version required strings.
ValidSourceAgent(j) ==
    /\ IsObj(j)
    /\ Has(j, "name") /\ IsStr(j.m.name)
    /\ Has(j, "version") /\ IsStr(j.m.version)

\* Schema check of Envelope: source_agent and target_stream required;
\* message_id and timestamp_utc optional (they have default factories).
ValidEnvelope(j) ==
    /\ IsObj(j)
    /\ Has(j, "source_agent") /\ ValidSourceAgent(j.m.source_agent)
    /\ Has(j, "target_stream") /\ IsStr(j.m.target_stream)
    /\ (Has(j, "message_id") => IsStr(j.m.message_id))
    /\ (Has(j, "timestamp_utc") => IsStr(j.m.timestamp_utc))

\* Schema check of StandardMessage: envelope and payload (a dict) required.
ValidMessage(j) ==
    /\ IsObj(j)
    /\ Has(j, "envelope") /\ ValidEnvelope(j.m.envelope)
    /\ Has(j, "payload") /\ IsObj(j.m.payload)

\* StandardMessage.model_validate_json: None stands for the ValidationError
\* raised on unparseable text and on a schema violation.
model_validate_json(text, gen) ==
    IF ~text.wf THEN None
    ELSE IF ~ValidMessage(text.val) THEN None
    ELSE LET e == text.val.m.envelope.m
             p == text.val.m.payload.m
         IN  [envelope |->
                [message_id    |-> IF "message_id" \in DOMAIN e
                                   THEN e.message_id.v ELSE gen.id,
                 timestamp_utc |-> IF "timestamp_utc" \in DOMAIN e
                                   THEN e.timestamp_utc.v ELSE gen.ts,
                 source_agent  |-> [name    |-> e.source_agent.m.name.v,
                                    version |-> e.source_agent.m.version.v],
                 target_stream |-> e.target_stream.v],
              payload |-> [k \in DOMAIN p |-> p[k].v]]

\* parse_message_from_stream(stream_data): stream_data maps field names to
\* texts.
parse_message_from_stream(stream_data, gen) ==
    IF "body" \notin DOMAIN stream_data THEN None
    ELSE model_validate_json(stream_data["body"], gen)

\* The record publish hands to xadd: {"body": model_dump_json().encode('utf-8')}.
WireRecord(message) == [body |-> Utf8(model_dump_json(message))]

\* Records a foreign producer may append: no body field, unparseable body,
\* parseable body without source_agent, body that is not UTF-8.
NoBodyRecord == [other |-> Utf8(Garbage)]
MalformedRecord == [body |-> Utf8(Garbage)]
SchemaViolationRecord ==
    [body |-> Utf8(Doc(JObj([envelope |-> JObj([message_id    |-> JStr(0),
                                                 timestamp_utc |-> JStr(0),
                                                 target_stream |-> JStr("s1")]),
                             payload  |-> JObj([data |-> JNum(1)])])))]
BadUtf8Record == [body |-> NotUtf8]
\* A schema-valid body written without message_id and timestamp_utc.
BareRecord ==
    [body |-> Utf8(Doc(JObj([envelope |-> JObj([source_agent  |-> JObj([name    |-> JStr("agent"),
                                                                         version |-> JStr("1")]),
                                                 target_stream |-> JStr("s1")]),
                             payload  |-> JObj([data |-> JNum(1)])])))]
PoisonRecords == {NoBodyRecord, MalformedRecord, SchemaViolationRecord, BadUtf8Record}

\* Line 89 of subscribe: every field value decoded as UTF-8; Raised stands
\* for the UnicodeDecodeError.
Raised == [tag |-> "Raised"]
decode_fields(data_b) ==
    IF \E k \in DOMAIN data_b : ~data_b[k].utf8 THEN Raised
    ELSE [k \in DOMAIN data_b |-> data_b[k].text]

\* Lines 89-90 of subscribe: the wire record decoded field by field, then
\* parsed.
decode_record(data_b, gen) ==
    LET decoded_data == decode_fields(data_b)
    IN  IF decoded_data = Raised THEN Raised
        ELSE parse_message_from_stream(decoded_data, gen)

\* A body without message_id and timestamp_utc that violates the schema:
\* source_agent is missing.
BareViolationRecord ==
    [body |-> Utf8(Doc(JObj([envelope |-> JObj([target_stream |-> JStr("s1")]),
                             payload  |-> JObj([data |-> JNum(1)])])))]

(* ------------------------------ broker --------------------------------- *)
\* A stream is the sequence of its records; an entry's id is its index.
\* A consumer group of a stream: its name, the id of the last entry it
\* delivered, and its pending entries <<id, consumer>>.
NewGroup(g, start) == [name |-> g, last |-> start, pel |-> {}]

HasGroup(gs, g) == \E i \in 1..Len(gs) : gs[i].name = g
GroupIndex(gs, g) == CHOOSE i \in 1..Len(gs) : gs[i].name = g
GroupOf(gs, g) == gs[GroupIndex(gs, g)]

\* XADD stream * body <bytes>
XAdd(st, s, rec) == [st EXCEPT ![s] = Append(@, rec)]

\* XGROUP CREATE stream group <start> MKSTREAM: BUSYGROUP when the group exists.
XGroupCreate(gr, s, g, start) ==
    IF HasGroup(gr[s], g)
    THEN [groups |-> gr, reply |-> "BUSYGROUP"]
    ELSE [groups |-> [gr EXCEPT ![s] = Append(@, NewGroup(g, start))], reply |-> "OK"]

\* The streams of lst that hold an entry the group has not delivered.
Undelivered(st, gr, g, lst) ==
    SelectSeq(lst, LAMBDA s : HasGroup(gr[s], g) /\ GroupOf(gr[s], g).last < Len(st[s]))

\* XREADGROUP GROUP g c COUNT n STREAMS lst > ... : for each stream of lst
\* holding undelivered entries, up to n of them are delivered to c.
Take(st, gr, g, s, n) ==
    LET from == GroupOf(gr[s], g).last
        upto == IF from + n < Len(st[s]) THEN from + n ELSE Len(st[s])
    IN  [i \in 1..(upto - from) |-> <<from + i, st[s][from + i]>>]

XReadGroup(st, gr, g, c, lst, n) ==
    LET av == Undelivered(st, gr, g, lst)
        deliver(s) ==
            LET i == GroupIndex(gr[s], g)
                got == Take(st, gr, g, s, n)
            IN  [gr[s] EXCEPT ![i].last = @ + Len(got),
                              ![i].pel = @ \cup {<<got[j][1], c>> : j \in 1..Len(got)}]
    IN  [groups |-> [s \in Streams |->
                        IF \E j \in 1..Len(av) : av[j] = s THEN deliver(s) ELSE gr[s]],
         reply  |-> [j \in 1..Len(av) |-> <<av[j], Take(st, gr, g, av[j], n)>>]]

\* XACK stream group id
XAck(gr, s, g, id) ==
    IF ~HasGroup(gr[s], g) THEN gr
    ELSE [gr EXCEPT ![s][GroupIndex(gr[s], g)].pel = {e \in @ : e[1] # id}]

(* ------------------------------ __init__ ------------------------------- *)
\* No construction of the client has been attempted.
NoClient == [handle |-> FALSE, pings |-> 0, probed |-> FALSE, raised |-> FALSE]

\* __init__ with the except clause logging the ConnectionError and not
\* re-raising it.
RedisBus_swallow(reachable) ==
    [handle |-> TRUE, pings |-> 1, probed |-> reachable, raised |-> FALSE]

\* RedisBus.__init__: from_url, then one ping inside the try; a
\* ConnectionError is logged and re-raised, so the constructor returns no
\* object. handle: the caller got a client object; pings: ping calls made;
\* probed: a ping succeeded; raised: the constructor raised.
RedisBus(reachable) ==
    IF reachable
    THEN [handle |-> TRUE, pings |-> 1, probed |-> TRUE, raised |-> FALSE]
    ELSE [handle |-> FALSE, pings |-> 1, probed |-> FALSE, raised |-> TRUE]

\* Nothing in hand in the codec pipeline.
Empty == [tag |-> "Empty"]

(* ------------------------------- state --------------------------------- *)
VARIABLES
    stream,      \* broker: stream name -> sequence of records
    groups,      \* broker: stream name -> sequence of consumer groups
    made,        \* messages constructed so far (feeds the id/timestamp factories)
    sent,        \* history: the messages publish appended, in order
    pubOutcome,  \* how the last publish call ended: "none", "returned", "raised"
    pc,          \* consumer -> position of its subscribe generator
    subs,        \* consumer -> the streams argument of its subscribe call
    k,           \* consumer -> index of the stream _ensure_group is called on next
    resp,        \* consumer -> response of its last xreadgroup
    parsed,      \* consumer -> parsed_message of the entry in hand
    out,         \* history: consumer -> the entries yielded to its caller
    faults,      \* transport errors and consumer stops so far
    client,      \* the outcome of constructing the bus client
    timedOut,    \* consumer -> whether a blocking read of it returned nothing
    built,       \* codec: the message Construct returned
    wire,        \* codec: the wire record in hand
    decoded      \* codec: history of the records decoded and the results

vars == <<stream, groups, made, sent, pubOutcome, pc, subs, k, resp, parsed, out,
          faults, client, timedOut, built, wire, decoded>>

codec == <<built, wire, decoded>>
others == <<client, timedOut, codec>>

broker == <<stream, groups>>
producer == <<made, sent, pubOutcome>>

TotalLen == Len(stream["s1"]) + Len(stream["s2"])

\* The entries of the broker that no publish call appended.
Foreign ==
    {<<s, i>> \in Streams \X (1..MaxEntries) : i <= Len(stream[s]) /\ stream[s][i] \in PoisonRecords}

\* What the default factories of Envelope produce at the next construction.
Gen == [id |-> made + 1, ts |-> made + 1]

Init ==
    /\ stream = [s \in Streams |-> <<>>]
    /\ groups = [s \in Streams |-> <<>>]
    /\ made = 0
    /\ sent = <<>>
    /\ pubOutcome = "none"
    /\ pc = [c \in Consumers |-> "idle"]
    /\ subs = [c \in Consumers |-> <<>>]
    /\ k = [c \in Consumers |-> 0]
    /\ resp = [c \in Consumers |-> <<>>]
    /\ parsed = [c \in Consumers |-> None]
    /\ out = [c \in Consumers |-> <<>>]
    /\ faults = 0
    /\ client = RedisBus(TRUE)
    /\ timedOut = [c \in Consumers |-> FALSE]
    /\ built = Empty
    /\ wire = Empty
    /\ decoded = <<>>

(* ------------------------------ publish -------------------------------- *)
\* publish with the except clause re-raising the RedisError.
publish_reraise(st, message, ok) ==
    LET target_stream == message.envelope.target_stream
    IN  IF ok
        THEN [stream |-> XAdd(st, target_stream, WireRecord(message)),
              outcome |-> "returned", appended |-> TRUE]
        ELSE [stream |-> st, outcome |-> "raised", appended |-> FALSE]

\* publish appending to a fixed stream instead of envelope.target_stream.
publish_fixed_stream(st, message, ok) ==
    IF ok
    THEN [stream |-> XAdd(st, "s1", WireRecord(message)),
          outcome |-> "returned", appended |-> TRUE]
    ELSE [stream |-> st, outcome |-> "returned", appended |-> FALSE]

\* RedisBus.publish: ok tells whether the xadd call got through; on a
\* RedisError the except clause logs and the call returns.
publish(st, message, ok) ==
    LET target_stream == message.envelope.target_stream
    IN  IF ok
        THEN [stream |-> XAdd(st, target_stream, WireRecord(message)),
              outcome |-> "returned", appended |-> TRUE]
        ELSE [stream |-> st, outcome |-> "returned", appended |-> FALSE]

PublishCall(p, tgt, ok) ==
    LET message == wrap_envelope(p, "agent", "1", tgt, Gen)
        r == publish(stream, message, ok)
    IN  /\ stream' = r.stream
        /\ pubOutcome' = r.outcome
        /\ sent' = IF r.appended THEN Append(sent, message) ELSE sent
        /\ made' = made + 1

\* A producer publishes a freshly wrapped message.
Publish(p, tgt) ==
    /\ TotalLen < MaxEntries
    /\ PublishCall(p, tgt, TRUE)
    /\ UNCHANGED <<groups, pc, subs, k, resp, parsed, out, faults, others>>

\* The xadd of a publish raises a RedisError.
PublishFail(p, tgt) ==
    /\ faults < MaxFaults
    /\ PublishCall(p, tgt, FALSE)
    /\ faults' = faults + 1
    /\ UNCHANGED <<groups, pc, subs, k, resp, parsed, out, others>>

\* A foreign producer appends a record that is no encoded StandardMessage.
Inject(s, rec) ==
    /\ TotalLen < MaxEntries
    /\ Cardinality(Foreign) < MaxPoison
    /\ stream' = XAdd(stream, s, rec)
    /\ UNCHANGED <<groups, producer, pc, subs, k, resp, parsed, out, faults, others>>

(* ----------------------------- subscribe ------------------------------- *)
\* _ensure_group re-raising every ResponseError, BUSYGROUP included.
ensure_group_strict(gr, s, g, fault) ==
    LET r == IF fault THEN [groups |-> gr, reply |-> "ERR"]
             ELSE XGroupCreate(gr, s, g, 0)
    IN  [groups |-> r.groups, raised |-> r.reply # "OK"]

\* _ensure_group creating the group at the end of the stream (id='$').
ensure_group_latest(gr, s, g, fault) ==
    LET r == IF fault THEN [groups |-> gr, reply |-> "ERR"]
             ELSE XGroupCreate(gr, s, g, Len(stream[s]))
    IN  [groups |-> r.groups, raised |-> r.reply \notin {"OK", "BUSYGROUP"}]

\* RedisBus._ensure_group: fault tells whether xgroup_create fails with an
\* error other than BUSYGROUP; BUSYGROUP is swallowed, anything else is
\* re-raised.
ensure_group(gr, s, g, fault) ==
    LET r == IF fault THEN [groups |-> gr, reply |-> "ERR"]
             ELSE XGroupCreate(gr, s, g, 0)
    IN  [groups |-> r.groups, raised |-> r.reply \notin {"OK", "BUSYGROUP"}]

\* Each consumer passing its own name as the group.
group_name_own(c) == c

\* The group_name argument of a consumer's subscribe call.
group_name(c) == Group

\* The except clause re-raising instead of backing off.
except_handler_reraise == "failed"

\* Where the except clause of the subscribe loop leaves the generator:
\* logged, then time.sleep(1).
except_handler == "backoff"

\* The positions of the generator inside its while loop.
LoopPcs == {"read", "decode", "ack", "emit", "yielded", "backoff"}

\* response[0] / messages[0]: the entry the loop takes from a response.
Entry(c) ==
    [stream |-> resp[c][1][1],
     id     |-> resp[c][1][2][1][1],
     data_b |-> resp[c][1][2][1][2]]

\* The caller starts a subscription: the generator is created and pulled.
Subscribe(c, lst) ==
    /\ pc[c] = "idle"
    /\ subs' = [subs EXCEPT ![c] = lst]
    /\ k' = [k EXCEPT ![c] = 1]
    /\ pc' = [pc EXCEPT ![c] = "ensure"]
    /\ UNCHANGED <<broker, producer, resp, parsed, out, faults, others>>

\* The _ensure_group calls placed inside the try of the loop: a failure goes
\* to the except clause and the loop carries on.
EnsureCall_absorbed(c, fault) ==
    LET r == ensure_group(groups, subs[c][k[c]], group_name(c), fault)
    IN  /\ groups' = r.groups
        /\ IF r.raised
           THEN /\ pc' = [pc EXCEPT ![c] = except_handler]
                /\ k' = [k EXCEPT ![c] = 0]
           ELSE IF k[c] < Len(subs[c])
           THEN /\ k' = [k EXCEPT ![c] = @ + 1]
                /\ pc' = pc
           ELSE /\ k' = [k EXCEPT ![c] = 0]
                /\ pc' = [pc EXCEPT ![c] = "read"]

\* One call of _ensure_group in the for loop of lines 75-76, outside the
\* try: a raise leaves the generator.
EnsureCall(c, fault) ==
    LET r == ensure_group(groups, subs[c][k[c]], group_name(c), fault)
    IN  /\ groups' = r.groups
        /\ IF r.raised
           THEN /\ pc' = [pc EXCEPT ![c] = "failed"]
                /\ k' = [k EXCEPT ![c] = 0]
           ELSE IF k[c] < Len(subs[c])
           THEN /\ k' = [k EXCEPT ![c] = @ + 1]
                /\ pc' = pc
           ELSE /\ k' = [k EXCEPT ![c] = 0]
                /\ pc' = [pc EXCEPT ![c] = "read"]

\* for stream in streams: self._ensure_group(stream, group_name)
EnsureGroup(c) ==
    /\ pc[c] = "ensure"
    /\ EnsureCall(c, FALSE)
    /\ UNCHANGED <<stream, producer, subs, resp, parsed, out, faults, others>>

\* xgroup_create fails with something other than BUSYGROUP.
EnsureGroupFail(c) ==
    /\ pc[c] = "ensure"
    /\ faults < MaxFaults
    /\ EnsureCall(c, TRUE)
    /\ faults' = faults + 1
    /\ UNCHANGED <<stream, producer, subs, resp, parsed, out, others>>

\* The read asking for the consumer's own pending entries (id '0') before
\* never-delivered ones (id '>').
Read_pending(c) ==
    /\ pc[c] = "read"
    /\ LET own == {x \in Streams \X (1..MaxEntries) :
                      /\ HasGroup(groups[x[1]], group_name(c))
                      /\ <<x[2], c>> \in GroupOf(groups[x[1]], group_name(c)).pel}
       IN  IF own # {}
           THEN /\ \E x \in own :
                     resp' = [resp EXCEPT ![c] = <<<<x[1], <<<<x[2], stream[x[1]][x[2]]>>>>>>>>]
                /\ groups' = groups
           ELSE /\ Undelivered(stream, groups, group_name(c), subs[c]) # <<>>
                /\ LET r == XReadGroup(stream, groups, group_name(c), c, subs[c], ReadCount)
                   IN  /\ groups' = r.groups
                       /\ resp' = [resp EXCEPT ![c] = r.reply]
    /\ pc' = [pc EXCEPT ![c] = "decode"]
    /\ UNCHANGED <<stream, producer, subs, k, parsed, out, faults, others>>

\* response = xreadgroup(group, consumer, {s: '>'}, count=1, block=block_ms)
\* returning entries. With nothing undelivered the call blocks; when block_ms
\* elapses it returns nothing and the loop reads again, a step that changes
\* no variable.
Read(c) ==
    /\ pc[c] = "read"
    /\ Undelivered(stream, groups, group_name(c), subs[c]) # <<>>
    /\ LET r == XReadGroup(stream, groups, group_name(c), c, subs[c], ReadCount)
       IN  /\ groups' = r.groups
           /\ resp' = [resp EXCEPT ![c] = r.reply]
    /\ pc' = [pc EXCEPT ![c] = "decode"]
    /\ UNCHANGED <<stream, producer, subs, k, parsed, out, faults, others>>

\* An empty response treated as a failure: the loop pauses before reading
\* again.
empty_response_backoff == "backoff"

\* if not response: continue
empty_response == "read"

\* xreadgroup returns nothing: block_ms elapsed with no undelivered entry in
\* any of the streams.
ReadTimeout(c) ==
    /\ pc[c] = "read"
    /\ LET r == XReadGroup(stream, groups, group_name(c), c, subs[c], ReadCount)
       IN  /\ r.reply = <<>>
           /\ groups' = r.groups
    /\ timedOut' = [timedOut EXCEPT ![c] = TRUE]
    /\ pc' = [pc EXCEPT ![c] = empty_response]
    /\ UNCHANGED <<stream, producer, subs, k, resp, parsed, out, faults, client, codec>>

\* xreadgroup raises.
ReadFail(c) ==
    /\ pc[c] = "read"
    /\ faults < MaxFaults
    /\ faults' = faults + 1
    /\ pc' = [pc EXCEPT ![c] = except_handler]
    /\ UNCHANGED <<broker, producer, subs, k, resp, parsed, out, others>>

\* Whether validating the body runs the default factories of Envelope: the
\* body is parseable and holds an envelope object without message_id or
\* without timestamp_utc. The factories run whether or not the validation
\* then fails on another field.
RunsFactories(stream_data) ==
    /\ "body" \in DOMAIN stream_data
    /\ stream_data["body"].wf
    /\ IsObj(stream_data["body"].val)
    /\ Has(stream_data["body"].val, "envelope")
    /\ IsObj(stream_data["body"].val.m.envelope)
    /\ LET e == stream_data["body"].val.m.envelope.m
       IN  "message_id" \notin DOMAIN e \/ "timestamp_utc" \notin DOMAIN e

\* Lines 86-90: unpack response[0], decode the fields, parse the body.
Decode(c) ==
    /\ pc[c] = "decode"
    /\ LET decoded_data == decode_fields(Entry(c).data_b)
       IN  IF decoded_data = Raised
           THEN /\ pc' = [pc EXCEPT ![c] = except_handler]
                /\ resp' = [resp EXCEPT ![c] = <<>>]
                /\ UNCHANGED <<parsed, made>>
           ELSE /\ parsed' = [parsed EXCEPT ![c] =
                                 parse_message_from_stream(decoded_data, Gen)]
                /\ made' = IF RunsFactories(decoded_data) THEN made + 1 ELSE made
                /\ pc' = [pc EXCEPT ![c] = "ack"]
                /\ resp' = resp
    /\ UNCHANGED <<broker, sent, pubOutcome, subs, k, out, faults, others>>

\* self.client.xack(stream_b, group_name, msg_id)
Ack(c) ==
    /\ pc[c] = "ack"
    /\ groups' = XAck(groups, Entry(c).stream, group_name(c), Entry(c).id)
    /\ pc' = [pc EXCEPT ![c] = "emit"]
    /\ UNCHANGED <<stream, producer, subs, k, resp, parsed, out, faults, others>>

\* xack raises.
AckFail(c) ==
    /\ pc[c] = "ack"
    /\ faults < MaxFaults
    /\ faults' = faults + 1
    /\ pc' = [pc EXCEPT ![c] = except_handler]
    /\ resp' = [resp EXCEPT ![c] = <<>>]
    /\ parsed' = [parsed EXCEPT ![c] = None]
    /\ UNCHANGED <<broker, producer, subs, k, out, others>>

\* if parsed_message: yield parsed_message
Yield(c) ==
    /\ pc[c] = "emit"
    /\ parsed[c] # None
    /\ out' = [out EXCEPT ![c] = Append(@, [stream |-> Entry(c).stream,
                                             id     |-> Entry(c).id,
                                             msg    |-> parsed[c]])]
    /\ pc' = [pc EXCEPT ![c] = "yielded"]
    /\ resp' = [resp EXCEPT ![c] = <<>>]
    /\ parsed' = [parsed EXCEPT ![c] = None]
    /\ UNCHANGED <<broker, producer, subs, k, faults, others>>

\* else: logger.warning(...) and the loop goes on.
Skip(c) ==
    /\ pc[c] = "emit"
    /\ parsed[c] = None
    /\ pc' = [pc EXCEPT ![c] = "read"]
    /\ resp' = [resp EXCEPT ![c] = <<>>]
    /\ UNCHANGED <<broker, producer, subs, k, parsed, out, faults, others>>

\* The caller pulls the generator again after a yield.
Pull(c) ==
    /\ pc[c] = "yielded"
    /\ pc' = [pc EXCEPT ![c] = "read"]
    /\ UNCHANGED <<broker, producer, subs, k, resp, parsed, out, faults, others>>

\* time.sleep(1) returns and the while loop starts over.
Backoff(c) ==
    /\ pc[c] = "backoff"
    /\ pc' = [pc EXCEPT ![c] = "read"]
    /\ UNCHANGED <<broker, producer, subs, k, resp, parsed, out, faults, others>>

\* The consumer process is stopped (external cancellation); it may subscribe
\* again under the same group and consumer name.
Crash(c) ==
    /\ pc[c] # "idle"
    /\ faults < MaxFaults
    /\ faults' = faults + 1
    /\ pc' = [pc EXCEPT ![c] = "idle"]
    /\ subs' = [subs EXCEPT ![c] = <<>>]
    /\ k' = [k EXCEPT ![c] = 0]
    /\ resp' = [resp EXCEPT ![c] = <<>>]
    /\ parsed' = [parsed EXCEPT ![c] = None]
    /\ UNCHANGED <<broker, producer, out, others>>

\* The caller of a subscription that raised starts over.
Restart(c) ==
    /\ pc[c] = "failed"
    /\ pc' = [pc EXCEPT ![c] = "idle"]
    /\ subs' = [subs EXCEPT ![c] = <<>>]
    /\ UNCHANGED <<broker, producer, k, resp, parsed, out, faults, others>>

(* ------------------------------ connect -------------------------------- *)
\* The caller constructs the client: RedisBus(redis_url); reachable tells
\* whether the broker answers the ping.
Connect(reachable) ==
    /\ ~client.handle
    /\ client' = RedisBus(reachable)
    /\ UNCHANGED <<broker, producer, pc, subs, k, resp, parsed, out, faults,
                   timedOut, codec>>

(* --------------------------- codec pipeline ---------------------------- *)
\* The records a foreign producer may hand to the decoder.
ForeignRecords == PoisonRecords \cup {BareRecord, BareViolationRecord}

\* Construct: wrap_envelope builds a message; the factories run once.
Construct(p, n, v, tgt) ==
    /\ built = Empty /\ wire = Empty
    /\ Len(decoded) < MaxDecodes
    /\ built' = wrap_envelope(p, n, v, tgt, Gen)
    /\ made' = made + 1
    /\ UNCHANGED <<broker, sent, pubOutcome, pc, subs, k, resp, parsed, out, faults,
                   client, timedOut, wire, decoded>>

\* Encode: the record publish builds from the message (lines 53-54).
Encode ==
    /\ built # Empty /\ wire = Empty
    /\ wire' = WireRecord(built)
    /\ UNCHANGED <<broker, producer, pc, subs, k, resp, parsed, out, faults,
                   client, timedOut, built, decoded>>

\* A record of a foreign producer arrives.
Receive(rec) ==
    /\ built = Empty /\ wire = Empty
    /\ Len(decoded) < MaxDecodes
    /\ wire' = rec
    /\ UNCHANGED <<broker, producer, pc, subs, k, resp, parsed, out, faults,
                   client, timedOut, built, decoded>>

\* Decode: the record in hand goes through lines 89-90; the factories run
\* when the envelope of the body lacks message_id or timestamp_utc.
DecodeWire ==
    /\ wire # Empty
    /\ LET result == decode_record(wire, Gen)
       IN  /\ decoded' = Append(decoded, [built |-> built, wire |-> wire, result |-> result])
           /\ made' = IF decode_fields(wire) # Raised /\ RunsFactories(decode_fields(wire))
                      THEN made + 1 ELSE made
    /\ built' = Empty
    /\ wire' = Empty
    /\ UNCHANGED <<broker, sent, pubOutcome, pc, subs, k, resp, parsed, out, faults,
                   client, timedOut>>

(* --------------------------- specifications ---------------------------- *)
ConsumerStep(c) ==
    \/ \E lst \in StreamLists : Subscribe(c, lst)
    \/ EnsureGroup(c)
    \/ Read(c)
    \/ Decode(c)
    \/ Ack(c)
    \/ Yield(c)
    \/ Skip(c)
    \/ Pull(c)
    \/ Backoff(c)

ProducerStep ==
    \/ \E p \in Payloads, tgt \in Streams : Publish(p, tgt)
    \/ \E s \in Streams, rec \in PoisonRecords : Inject(s, rec)

ConsumerFault(c) ==
    \/ EnsureGroupFail(c)
    \/ ReadFail(c)
    \/ AckFail(c)
    \/ Crash(c)
    \/ Restart(c)

FaultStep ==
    \/ \E p \in Payloads, tgt \in Streams : PublishFail(p, tgt)
    \/ \E c \in Consumers : ConsumerFault(c)

\* Healthy broker, no restarts.
NextOK == ProducerStep \/ \E c \in Consumers : ConsumerStep(c)
SpecOK == Init /\ [][NextOK]_vars

\* Healthy broker where the producers finish before any subscription starts:
\* every entry is in its stream before the stream's group exists.
Preload == (\A c \in Consumers : pc[c] = "idle") /\ ProducerStep
NextPre == Preload \/ \E c \in Consumers : ConsumerStep(c)
SpecPre == Init /\ [][NextPre]_vars

\* Transport errors and restarts included.
Next == NextOK \/ FaultStep
Spec == Init /\ [][Next]_vars

\* One subscription and the producers, with transport errors and restarts.
NextOne ==
    \/ ProducerStep
    \/ \E p \in Payloads, tgt \in Streams : PublishFail(p, tgt)
    \/ ConsumerStep("c1")
    \/ ConsumerFault("c1")
SpecOne == Init /\ [][NextOne]_vars

\* The generator keeps running, its caller keeps pulling, and a stopped or
\* failed subscription is started again.
FairOne == SpecOne /\ WF_vars(ConsumerStep("c1") \/ Restart("c1"))

\* The codec alone: messages are constructed, encoded and decoded, and
\* foreign records are decoded.
NextCodec ==
    \/ \E p \in CodecPayloads, n \in SourceNames, v \in SourceVersions, tgt \in Streams :
           Construct(p, n, v, tgt)
    \/ Encode
    \/ \E rec \in ForeignRecords : Receive(rec)
    \/ DecodeWire

SpecCodec == Init /\ [][NextCodec]_vars

\* The state before the client is constructed.
InitNoClient ==
    /\ stream = [s \in Streams |-> <<>>]
    /\ groups = [s \in Streams |-> <<>>]
    /\ made = 0
    /\ sent = <<>>
    /\ pubOutcome = "none"
    /\ pc = [c \in Consumers |-> "idle"]
    /\ subs = [c \in Consumers |-> <<>>]
    /\ k = [c \in Consumers |-> 0]
    /\ resp = [c \in Consumers |-> <<>>]
    /\ parsed = [c \in Consumers |-> None]
    /\ out = [c \in Consumers |-> <<>>]
    /\ faults = 0
    /\ client = NoClient
    /\ timedOut = [c \in Consumers |-> FALSE]
    /\ built = Empty
    /\ wire = Empty
    /\ decoded = <<>>

\* publish and subscribe are methods of the object the constructor returned.
OnClient == client.handle /\ (ProducerStep \/ ConsumerStep("c1"))

\* Construction of the client, then one subscription and the producers on a
\* healthy broker.
NextConnect == (\E reachable \in BOOLEAN : Connect(reachable)) \/ OnClient
SpecConnect == InitNoClient /\ [][NextConnect]_vars

\* One subscription with a finite block_ms and the producers, on a healthy
\* broker.
NextPoll == ProducerStep \/ ConsumerStep("c1") \/ ReadTimeout("c1")
SpecPoll == Init /\ [][NextPoll]_vars

(* ------------------------------ properties ----------------------------- *)
Cursor(s) == IF HasGroup(groups[s], Group) THEN GroupOf(groups[s], Group).last ELSE 0
Pending(s) == IF HasGroup(groups[s], Group) THEN GroupOf(groups[s], Group).pel ELSE {}
PendingOf(c) ==
    UNION {{<<s, e[1]>> : e \in {x \in Pending(s) : x[2] = c}} : s \in Streams}

\* The record decodes to a StandardMessage.
ValidRecord(rec) ==
    LET d == decode_fields(rec)
    IN  d # Raised /\ parse_message_from_stream(d, Gen) # None

Yielded(s, i) ==
    \E c \in Consumers : \E j \in 1..Len(out[c]) :
        out[c][j].stream = s /\ out[c][j].id = i

\* C1: at-least-once delivery. Every valid entry of a stream that has the
\* group is eventually yielded by some consumer of the group, with
\* consumers stopping and restarting and transport errors that cease.
AtLeastOnce ==
    \A s \in Streams : \A i \in 1..MaxEntries :
        (HasGroup(groups[s], Group) /\ i <= Len(stream[s]) /\ ValidRecord(stream[s][i]))
            ~> Yielded(s, i)

\* C2: unconditional acknowledgment. When the loop is about to issue a read,
\* every entry it received from earlier reads whose decode succeeded or
\* failed (missing body, malformed data, schema violation) has been
\* acknowledged: none is pending for this consumer.
AckBeforeNextRead ==
    \A c \in Consumers : pc[c] = "read" =>
        \A e \in PendingOf(c) : decode_fields(stream[e[1]][e[2]]) = Raised

\* C3: one entry at a time across streams. A response the loop receives
\* holds exactly one entry in total.
EntriesIn(response) ==
    IF response = <<>> THEN 0
    ELSE IF Len(response) = 1 THEN Len(response[1][2])
    ELSE Len(response[1][2]) + Len(response[2][2])
OneEntryPerRead ==
    \A c \in Consumers : pc[c] = "decode" => EntriesIn(resp[c]) = 1


\* No other consumer has subscribed.
Sole(c) == \A d \in Consumers \ {c} : pc[d] = "idle"

\* The generator is blocked in xreadgroup: nothing is left to deliver.
Quiescent(c) ==
    pc[c] = "read" /\ Undelivered(stream, groups, group_name(c), subs[c]) = <<>>

\* The messages publish appended to stream s, in order.
PublishedTo(s) == SelectSeq(sent, LAMBDA m : m.envelope.target_stream = s)

InHand(c) == pc[c] \in {"decode", "ack", "emit"}

\* How often entry i of stream s was yielded, over all consumers.
YieldCount(s, i) ==
    Cardinality({x \in Consumers \X (1..MaxEntries) :
                    /\ x[2] <= Len(out[x[1]])
                    /\ out[x[1]][x[2]].stream = s
                    /\ out[x[1]][x[2]].id = i})

\* C4: competing consumers. With every subscription of the group on the one
\* stream s, no entry is yielded twice (by one consumer or by two), an entry
\* a consumer holds or has yielded is not delivered again, a yielded entry is
\* not pending, and once the consumers are blocked with nothing left to
\* deliver every valid entry has been yielded exactly once.
CompetingConsumers ==
    \A s \in Streams :
        (\A c \in Consumers : subs[c] \in {<<>>, <<s>>}) =>
            /\ \A i \in 1..Len(stream[s]) : YieldCount(s, i) <= 1
            /\ \A c \in Consumers : InHand(c) =>
                  /\ ~Yielded(s, Entry(c).id)
                  /\ \A d \in Consumers \ {c} : InHand(d) => Entry(d).id # Entry(c).id
            /\ \A i \in 1..Len(stream[s]) :
                  Yielded(s, i) => \A c \in Consumers : <<i, c>> \notin Pending(s)
            /\ ( /\ \A c \in Consumers : pc[c] = "idle" \/ Quiescent(c)
                 /\ \E c \in Consumers : Quiescent(c) )
               => \A i \in 1..Len(stream[s]) :
                     ValidRecord(stream[s][i]) => YieldCount(s, i) = 1

\* Two consumers of the group have split the entries of s1 between them.
CompetingConsumersWitness ==
    /\ \A c \in Consumers : subs[c] = <<"s1">> /\ Quiescent(c) /\ Len(out[c]) >= 1
    /\ Len(out["c1"]) + Len(out["c2"]) = Len(stream["s1"])

\* C5: log-order consumption by a fresh group. A single subscription on a
\* stream whose N valid entries were all appended before the group existed
\* yields the N published messages in append order, no more and no fewer;
\* after the N-th yield nothing is pending.
FreshGroupLogOrder ==
    \A c \in Consumers : \A s \in Streams :
        ( /\ Sole(c) /\ subs[c] = <<s>>
          /\ \A i \in 1..Len(stream[s]) : ValidRecord(stream[s][i]) )
        => /\ Len(out[c]) <= Len(stream[s])
           /\ \A j \in 1..Len(out[c]) :
                 out[c][j] = [stream |-> s, id |-> j, msg |-> PublishedTo(s)[j]]
           /\ Len(out[c]) = Len(stream[s]) => Pending(s) = {}
           /\ Quiescent(c) => Len(out[c]) = Len(stream[s])

\* Three preloaded entries, all yielded in order and acknowledged.
FreshGroupLogOrderWitness ==
    /\ Sole("c1") /\ subs["c1"] = <<"s1">>
    /\ Len(stream["s1"]) = 3 /\ Len(PublishedTo("s1")) = 3
    /\ Len(out["c1"]) = 3
    /\ \A j \in 1..3 : out["c1"][j].id = j
    /\ Pending("s1") = {}

\* C6: poison-message filtering. No yielded value is the failure sentinel,
\* and once a single subscription is blocked with nothing left to deliver it
\* has yielded exactly the valid entries in order and the group's pending
\* count is zero, whatever decode-failure entries the stream holds.
PoisonFiltered ==
    /\ \A c \in Consumers : \A j \in 1..Len(out[c]) : out[c][j].msg # None
    /\ \A c \in Consumers : \A s \in Streams :
          (Sole(c) /\ subs[c] = <<s>> /\ Quiescent(c)) =>
              /\ [j \in 1..Len(out[c]) |-> out[c][j].msg] = PublishedTo(s)
              /\ \A j \in 1..Len(out[c]) : ValidRecord(stream[s][out[c][j].id])
              /\ \A j \in 1..(Len(out[c]) - 1) : out[c][j].id < out[c][j + 1].id
              /\ Pending(s) = {}

\* C10: end-to-end delivery. A single subscription on stream s yields one
\* message per successful publish to s, in order, each with the payload and
\* the envelope.target_stream of the published message.
EndToEnd ==
    \A c \in Consumers : \A s \in Streams :
        (Sole(c) /\ subs[c] = <<s>>) =>
            /\ Len(out[c]) <= Len(PublishedTo(s))
            /\ \A j \in 1..Len(out[c]) :
                  /\ out[c][j].msg.payload = PublishedTo(s)[j].payload
                  /\ out[c][j].msg.envelope.target_stream = s
                  /\ PublishedTo(s)[j].envelope.target_stream = s
            /\ Quiescent(c) => Len(out[c]) = Len(PublishedTo(s))

\* One publish of payload {"data": 123} to s1, one message yielded.
EndToEndWitness ==
    /\ Sole("c1") /\ subs["c1"] = <<"s1">> /\ Quiescent("c1")
    /\ Len(sent) = 1 /\ sent[1].envelope.target_stream = "s1"
    /\ Len(out["c1"]) = 1
    /\ out["c1"][1].msg.payload = [data |-> 123]
    /\ out["c1"][1].msg.envelope.target_stream = "s1"

\* C7: the subscription loop never terminates on its own. From inside the
\* loop a step leads outside it only by external cancellation; a step on
\* which the read, the decode or the acknowledge raises leads to the
\* backoff, and the backoff leads to the next read.
LoopNeverTerminates ==
    [][\A c \in Consumers : pc[c] \in LoopPcs =>
          \/ pc'[c] = "idle"
          \/ /\ pc'[c] \in LoopPcs
             /\ (faults' # faults /\ pc'[c] # pc[c]) => pc'[c] = "backoff"
             /\ ( /\ pc[c] = "decode" /\ pc'[c] # pc[c]
                  /\ decode_fields(Entry(c).data_b) = Raised ) => pc'[c] = "backoff"
             /\ (pc[c] = "backoff" /\ pc'[c] # pc[c]) => pc'[c] = "read"]_vars

\* A transport error was raised inside the loop and the generator backs off.
LoopNeverTerminatesWitness ==
    pc["c1"] = "backoff" /\ faults = 1 /\ Foreign = {} /\ made = Len(sent)

\* C8: publish is fire-and-forget. A publish call returns normally; when
\* the xadd got through, exactly one record was appended, to the stream its
\* message names as envelope.target_stream, and no other stream changed;
\* when the xadd raised, no stream changed.
PublishFireAndForget ==
    [][(made' = made + 1 /\ pc' = pc) =>
          /\ pubOutcome' = "returned"
          /\ \/ /\ faults' = faults
                /\ Len(sent') = Len(sent) + 1
                /\ \E s \in Streams :
                      /\ Len(stream'[s]) = Len(stream[s]) + 1
                      /\ stream' = [stream EXCEPT ![s] = Append(@, stream'[s][Len(stream'[s])])]
                      /\ LET rec == stream'[s][Len(stream'[s])]
                             m == parse_message_from_stream(decode_fields(rec), Gen)
                         IN  /\ m = sent'[Len(sent')]
                             /\ m.envelope.target_stream = s
             \/ /\ faults' = faults + 1
                /\ stream' = stream
                /\ sent' = sent]_vars

\* A publish hit a transport error, returned normally and appended nothing.
PublishFireAndForgetWitness ==
    made = 1 /\ faults = 1 /\ sent = <<>> /\ TotalLen = 0 /\ pubOutcome = "returned"

\* C9: EnsureGroup is idempotent. A call that the broker answers (created or
\* already exists) raises nothing and leaves exactly one group of the name;
\* on a stream that has the group it changes nothing (cursor and pending
\* entries kept); a call failing otherwise raises to the caller.
EnsureGroupIdempotent ==
    [][\A c \in Consumers :
          (pc[c] = "ensure" /\ (pc'[c] # pc[c] \/ k'[c] # k[c]) /\ pc'[c] # "idle") =>
              LET s == subs[c][k[c]]
              IN  IF faults' = faults
                  THEN /\ pc'[c] # "failed"
                       /\ Cardinality({i \in 1..Len(groups'[s]) :
                                          groups'[s][i].name = Group}) = 1
                       /\ HasGroup(groups[s], Group) => groups' = groups
                       /\ \A u \in Streams \ {s} : groups'[u] = groups[u]
                  ELSE pc'[c] = "failed" /\ groups' = groups]_vars

\* c1 yielded an entry of s2 under an earlier subscription, was restarted on
\* s1 alone and passed _ensure_group there a second time.
EnsureGroupIdempotentWitness ==
    /\ subs["c1"] = <<"s1">> /\ pc["c1"] = "read"
    /\ \E j \in 1..Len(out["c1"]) : out["c1"][j].stream = "s2"
    /\ Cursor("s1") >= 1

\* C11: round-trip law of the codec. A message built by Construct, encoded
\* and decoded comes back equal in every field, message_id and timestamp_utc
\* being those fixed at construction although the factories have moved on.
CodecRoundTrip ==
    \A j \in 1..Len(decoded) :
        decoded[j].built # Empty =>
            /\ decoded[j].result = decoded[j].built
            /\ decoded[j].result.envelope.message_id # Gen.id
            /\ decoded[j].result.envelope.timestamp_utc # Gen.ts

\* The second message of a behaviour, with two payload fields and version
\* "2", went through Construct, Encode and Decode.
CodecRoundTripWitness ==
    /\ Len(decoded) = 2
    /\ decoded[2].built # Empty
    /\ decoded[2].built.envelope.source_agent.version = "2"
    /\ DOMAIN decoded[2].built.payload = {"data", "n"}
    /\ decoded[2].result.envelope.message_id = decoded[2].built.envelope.message_id

\* Whether every field of a wire record is valid UTF-8, whether the record
\* has a body, whether the body is parseable, whether it fits the schema.
FieldsUtf8(w) == \A f \in DOMAIN w : w[f].utf8
HasBody(w) == "body" \in DOMAIN w
Parseable(w) == HasBody(w) /\ w.body.utf8 /\ w.body.text.wf
SchemaValid(w) ==
    /\ Parseable(w)
    /\ ValidMessage(w.body.text.val)
    /\ "source_agent" \in DOMAIN w.body.text.val.m.envelope.m

\* C12: Decode never throws into the delivery loop. For a record without
\* body, with a body that is not parseable (bytes that are no UTF-8 text
\* included) or with a body violating the schema it returns None and raises
\* nothing; it returns a StandardMessage only for a record whose body is
\* present, parseable and schema-valid.
DecodeNeverThrows ==
    \A j \in 1..Len(decoded) :
        LET w == decoded[j].wire
            result == decoded[j].result
        IN  /\ result # Raised
            /\ (~HasBody(w) \/ ~Parseable(w) \/ ~SchemaValid(w)) => result = None
            /\ result # None =>
                   /\ SchemaValid(w)
                   /\ DOMAIN result = {"envelope", "payload"}

\* C13: Decode failure kinds are distinguishable. The result Decode returns
\* for a record without body differs from the result it returns for a
\* record whose body is present but malformed.
DecodeKindsDistinct ==
    \A i, j \in 1..Len(decoded) :
        (/\ FieldsUtf8(decoded[i].wire) /\ ~HasBody(decoded[i].wire)
         /\ FieldsUtf8(decoded[j].wire) /\ HasBody(decoded[j].wire)
         /\ ~SchemaValid(decoded[j].wire))
            => decoded[i].result # decoded[j].result

\* C14: Connect fails fatally. With the broker unreachable the constructor
\* raises after one ping, without retry, and the caller has no client; every
\* client the caller has answered a ping before any publish or read.
ConnectFailsFatally ==
    /\ client.raised => (~client.handle /\ ~client.probed /\ client.pings = 1)
    /\ client.handle => (client.probed /\ ~client.raised)
    /\ (made > 0 \/ TotalLen > 0 \/ pc["c1"] # "idle") => (client.handle /\ client.probed)

\* The constructor raised on an unreachable broker: no client, nothing
\* published or read.
ConnectFailsFatallyWitness ==
    /\ client.raised /\ ~client.handle /\ client.pings = 1
    /\ made = 0 /\ pc["c1"] = "idle"

\* The entries delivered to c and not acknowledged whose fields are valid
\* UTF-8: those between read and acknowledge.
BetweenReadAndAck(c) ==
    {e \in PendingOf(c) : decode_fields(stream[e[1]][e[2]]) # Raised}

\* C15: per-entry step order within one subscription. An entry is read,
\* decoded, acknowledged and yielded in this order: a yielded entry has been
\* acknowledged, while the generator waits for its caller after a yield no
\* read is outstanding, and at most one entry of the subscription is between
\* read and acknowledge, namely the one in hand.
StepOrder ==
    \A c \in Consumers :
        /\ \A j \in 1..Len(out[c]) : <<out[c][j].stream, out[c][j].id>> \notin PendingOf(c)
        /\ pc[c] = "yielded" => resp[c] = <<>>
        /\ Cardinality(BetweenReadAndAck(c)) <= 1
        /\ \A e \in BetweenReadAndAck(c) :
               pc[c] \in {"decode", "ack"} /\ e = <<Entry(c).stream, Entry(c).id>>

\* C16: group setup precedes consumption. Subscribe ensures the group on
\* each listed stream once, in order, and enters the read loop only after
\* the last; a failure other than BUSYGROUP leaves the generator raised
\* instead of entering the backoff, and then nothing is read, acknowledged
\* or yielded.
GroupSetupFirst ==
    [][\A c \in Consumers :
          /\ (pc[c] = "ensure" /\ (pc'[c] # pc[c] \/ k'[c] # k[c]) /\ pc'[c] # "idle") =>
                \/ /\ k[c] < Len(subs[c]) /\ pc'[c] = "ensure" /\ k'[c] = k[c] + 1
                   /\ HasGroup(groups'[subs[c][k[c]]], Group)
                \/ /\ k[c] = Len(subs[c]) /\ pc'[c] = "read"
                   /\ \A i \in 1..Len(subs[c]) : HasGroup(groups'[subs[c][i]], Group)
                \/ /\ pc'[c] = "failed" /\ faults' = faults + 1
                   /\ groups' = groups /\ out' = out /\ resp'[c] = <<>>
          /\ (pc[c] \in {"idle", "ensure", "failed"}) =>
                /\ resp[c] = <<>>
                /\ PendingOf(c)' \subseteq PendingOf(c)
                /\ out'[c] = out[c]
          /\ pc[c] = "failed" => pc'[c] \in {"failed", "idle"}
          /\ pc'[c] = "read" => pc[c] \in LoopPcs \/ (pc[c] = "ensure" /\ k[c] = Len(subs[c]))]_vars

\* The group exists on s1, _ensure_group failed on s2 and the subscription
\* raised with entries waiting in the streams: none was read or yielded.
GroupSetupFirstWitness ==
    /\ pc["c1"] = "failed" /\ faults = 1
    /\ subs["c1"] = <<"s1", "s2">>
    /\ HasGroup(groups["s1"], Group) /\ ~HasGroup(groups["s2"], Group)
    /\ Len(stream["s1"]) > 0
    /\ PendingOf("c1") = {} /\ out["c1"] = <<>> /\ resp["c1"] = <<>>

\* The entries delivered to c and not acknowledged that its loop no longer
\* holds: their processing was cut short before the acknowledge completed.
Abandoned(c) ==
    {e \in PendingOf(c) :
        ~(pc[c] \in {"decode", "ack"} /\ e = <<Entry(c).stream, Entry(c).id>>)}

\* C17: an entry whose processing raised before the acknowledge completed (a
\* field that is not UTF-8, a transport error of xack) is neither
\* acknowledged nor yielded, and since the loop asks for never-delivered
\* entries only, the subscription never holds it again: it stays pending and
\* unyielded whatever the bus does next.
RaisedEntryStaysPending ==
    [][\A c \in Consumers : \A e \in Abandoned(c) :
          /\ e \in Abandoned(c)'
          /\ ~Yielded(e[1], e[2])
          /\ ~Yielded(e[1], e[2])']_vars

\* Entry 1 of s1 raised at the decode of its fields; after the backoff the
\* loop has read entry 2 and entry 1 is still pending.
RaisedEntryStaysPendingWitness ==
    /\ faults = 0 /\ subs["c1"] = <<"s1">>
    /\ Len(stream["s1"]) >= 2 /\ stream["s1"][1] = BadUtf8Record
    /\ pc["c1"] = "ack" /\ Entry("c1").id = 2
    /\ <<"s1", 1>> \in Abandoned("c1")
    /\ ~Yielded("s1", 1)

\* C18: a blocking read that returns no entry. The loop goes straight to the
\* next read: no acknowledge, no yield, no pause, and the streams, the group
\* cursors and the pending sets are as before.
EmptyReadIsNoOp ==
    [][\A c \in Consumers :
          (pc[c] = "read" /\ timedOut'[c] # timedOut[c]) =>
              /\ pc'[c] = "read"
              /\ stream' = stream
              /\ \A s \in Streams : Cursor(s)' = Cursor(s) /\ Pending(s)' = Pending(s)
              /\ groups' = groups
              /\ out' = out /\ resp' = resp /\ parsed' = parsed]_vars

\* The subscription consumed and yielded the only entry of s1, then a read
\* of it timed out; cursor and pending set are those the yield left.
EmptyReadIsNoOpWitness ==
    /\ timedOut["c1"] /\ pc["c1"] = "read"
    /\ Len(stream["s1"]) = 1 /\ Len(stream["s2"]) = 0
    /\ Cursor("s1") = 1 /\ Pending("s1") = {}
    /\ Len(out["c1"]) = 1

====
